---- MODULE Spec2Model ----
(***************************************************************************)
(* The transition-tool invocation protocol of evm_transition_tool:        *)
(* _evaluate_stream and _evaluate_filesystem of                           *)
(* transition_tool_methods/_evaluate.py, with the helpers they call.      *)
(*                                                                         *)
(* Text is modelled as a sequence of atoms (a character or a word that    *)
(* the code never looks inside), so joining, replacing, formatting and    *)
(* parsing are computed and not assumed.                                   *)
(***************************************************************************)
EXTENDS Integers, Sequences, FiniteSets, TLC

VARIABLES inv, tmpfs, dump, pure

vars == <<inv, tmpfs, dump, pure>>

(***************************************************************************)
(* Bounds of the model.                                                    *)
(***************************************************************************)
\* Number of invocations made one after another.
MaxRuns == 2
\* Longest extension-id list given to the Fork-Name Encoder.
MaxEips == 3

(***************************************************************************)
(* Text helpers: Python's str.join, str.replace, str(int), int(s, 0),     *)
(* os.path.join and os.path.dirname.                                       *)
(***************************************************************************)
RECURSIVE Join(_, _)
\* sep.join(parts): parts is a sequence of texts.
Join(sep, parts) ==
    IF parts = <<>> THEN <<>>
    ELSE IF Len(parts) = 1 THEN parts[1]
    ELSE parts[1] \o sep \o Join(sep, Tail(parts))

\* s[k..] starts with pre.
StartsWithAt(s, k, pre) ==
    /\ k + Len(pre) - 1 <= Len(s)
    /\ \A j \in 1..Len(pre) : s[k + j - 1] = pre[j]

\* sub in s (sub not empty).
Contains(s, sub) == \E k \in 1..Len(s) : StartsWithAt(s, k, sub)

RECURSIVE ReplaceFrom(_, _, _, _)
ReplaceFrom(s, k, old, new) ==
    IF k > Len(s) THEN <<>>
    ELSE IF StartsWithAt(s, k, old)
         THEN new \o ReplaceFrom(s, k + Len(old), old, new)
         ELSE <<s[k]>> \o ReplaceFrom(s, k + 1, old, new)

\* s.replace(old, new): every non-overlapping occurrence, left to right.
Replace(s, old, new) == IF old = <<>> THEN s ELSE ReplaceFrom(s, 1, old, new)

DigitChar == <<"1", "2", "3", "4", "5", "6", "7", "8", "9">>

RECURSIVE StrNat(_)
StrNat(n) ==
    IF n < 10 THEN <<IF n = 0 THEN "0" ELSE DigitChar[n]>>
    ELSE StrNat(n \div 10) \o <<IF n % 10 = 0 THEN "0" ELSE DigitChar[n % 10]>>

\* str(n) of an int.
Str(n) == IF n < 0 THEN <<"-">> \o StrNat(0 - n) ELSE StrNat(n)

\* The value of one digit character, or -1.
DigitVal(c) ==
    IF c = "0" THEN 0
    ELSE IF \E d \in 1..9 : DigitChar[d] = c
         THEN CHOOSE d \in 1..9 : DigitChar[d] = c
         ELSE IF c = "a" THEN 10 ELSE IF c = "b" THEN 11 ELSE IF c = "c" THEN 12
         ELSE IF c = "d" THEN 13 ELSE IF c = "e" THEN 14 ELSE IF c = "f" THEN 15
         ELSE 0 - 1

RECURSIVE Digits(_, _)
\* The value of the digit string s in the given base (s is well formed).
Digits(s, base) ==
    IF s = <<>> THEN 0
    ELSE Digits(SubSeq(s, 1, Len(s) - 1), base) * base + DigitVal(s[Len(s)])

\* int(s, 0): the base is read from the prefix, 0x for sixteen, none for ten.
IntBase0(s) ==
    IF Len(s) > 2 /\ s[1] = "0" /\ s[2] = "x"
    THEN Digits(SubSeq(s, 3, Len(s)), 16)
    ELSE Digits(s, 10)

\* os.path.join(a, b) for a relative b.
PathJoin(a, b) == a \o <<"/">> \o b

\* os.path.dirname(p): p up to its last separator.
Dirname(p) ==
    LET seps == {k \in 1..Len(p) : p[k] = "/"}
    IN  IF seps = {} THEN <<>>
        ELSE SubSeq(p, 1, (CHOOSE k \in seps : \A j \in seps : j <= k) - 1)

(***************************************************************************)
(* An optional value: <<>> is None, <<v>> is the value v.                  *)
(***************************************************************************)
None == <<>>
Some(v) == <<v>>

(***************************************************************************)
(* The leaf functions of _evaluate.py.                                     *)
(***************************************************************************)
\* A bug the encoder could have: the ids joined in sorted, deduplicated order.
RECURSIVE SortedIds(_)
SortedIds(S) ==
    IF S = {} THEN <<>>
    ELSE LET m == CHOOSE x \in S : \A y \in S : x <= y
         IN  <<m>> \o SortedIds(S \ {m})

apply_eips_to_forkname_sorted(fork_name, eips) ==
    IF eips # None
    THEN LET ids == SortedIds({eips[1][k] : k \in 1..Len(eips[1])})
         IN  Join(<<"+">>, <<fork_name>> \o [k \in 1..Len(ids) |-> Str(ids[k])])
    ELSE fork_name

apply_eips_to_forkname(fork_name, eips) ==
    IF eips # None
    THEN Join(<<"+">>, <<fork_name>> \o [k \in 1..Len(eips[1]) |-> Str(eips[1][k])])
    ELSE fork_name

\* A bug the corrector could have: the number compared as text with "0".
correct_reward_for_genesis_text(reward, env) ==
    IF env.currentNumber = <<"0">> THEN 0 - 1 ELSE reward

correct_reward_for_genesis(reward, env) ==
    IF IntBase0(env.currentNumber) = 0 THEN 0 - 1 ELSE reward

(***************************************************************************)
(* Documents and files.  A JSON file or stream holds the encoding of a    *)
(* document, or text that is no JSON at all; json.loads decodes the first *)
(* and raises on the second.                                               *)
(***************************************************************************)
JsonDumps(doc) == [json |-> doc]
Garbage == [garbage |-> TRUE]
IsJson(text) == "json" \in DOMAIN text
JsonLoads(text) == text.json

\* Opaque, non-JSON file content (the raw transaction body, a trace file).
Raw == [raw |-> TRUE]

(***************************************************************************)
(* The tool instances (self): the transport a tool class uses, its binary *)
(* and subcommand, and whether traces are collected.                       *)
(***************************************************************************)
ToolKinds ==
    { [transport |-> "stream", binary |-> <<"evm">>, t8n_subcommand |-> <<"t8n">>],
      [transport |-> "filesystem", binary |-> <<"evmone-t8n">>, t8n_subcommand |-> <<>>] }

Tools ==
    { [transport |-> k.transport, binary |-> k.binary,
       t8n_subcommand |-> k.t8n_subcommand, trace |-> t] :
        k \in ToolKinds, t \in BOOLEAN }

NoTool == [transport |-> "none", binary |-> <<>>, t8n_subcommand |-> <<>>, trace |-> FALSE]

(***************************************************************************)
(* The requests a caller makes: the keyword arguments of the evaluate     *)
(* methods.                                                                *)
(***************************************************************************)
TheAlloc == [doc |-> "alloc"]
TheTxs == [doc |-> "txs"]
CurrentNumbers == { <<"0">>, <<"0", "x", "0">>, <<"0", "x", "1">> }
Rewards == {2000}
EipLists == { Some(<<3855>>) }
DebugDir == <<"/dbg">>
DebugPaths == { <<>>, DebugDir }
DefaultChainId == 1

Requests ==
    { [alloc |-> TheAlloc, txs |-> TheTxs, env |-> [currentNumber |-> n],
       fork_name |-> <<"Berlin">>, chain_id |-> DefaultChainId, reward |-> r,
       eips |-> e, debug_output_path |-> d] :
        n \in CurrentNumbers, r \in Rewards, e \in EipLists, d \in DebugPaths }

NoReq ==
    [alloc |-> TheAlloc, txs |-> TheTxs, env |-> [currentNumber |-> <<"0">>],
     fork_name |-> <<>>, chain_id |-> DefaultChainId, reward |-> 0,
     eips |-> None, debug_output_path |-> <<>>]

(***************************************************************************)
(* What the external binary may do with one spawn.                         *)
(***************************************************************************)
ErrTexts == { <<"invalid chain id">>, <<"unsupported fork">> }
AllocVals == { [acct |-> "a1"], [acct |-> "a2"] }
Receipts == << [transactionHash |-> "h0"], [transactionHash |-> "h1"] >>
ResultVals == { [stateRoot |-> "r1", receipts |-> Receipts], [stateRoot |-> "r1"] }
EnvelopeKeys == {"alloc", "result", "body", "extra"}
RequiredKeys == <<"alloc", "result", "body">>

\* The output envelope with the keys K, alloc a and result r.
Envelope(K, a, r) ==
    [k \in K |-> IF k = "alloc" THEN a ELSE IF k = "result" THEN r ELSE Raw]

\* The envelopes a binary answers with: one document cut down to every
\* subset of the keys, and the complete envelope with every alloc and result.
Envelopes ==
    { Envelope(K, [acct |-> "a1"], [stateRoot |-> "r1", receipts |-> Receipts]) :
        K \in SUBSET EnvelopeKeys }
    \cup { Envelope({"alloc", "result", "body"}, a, r) : a \in AllocVals, r \in ResultVals }

\* The trace files (by receipt index) a tracing binary leaves in its basedir.
TraceSets == { {0}, {0, 1} }
TraceFile == [k \in {0, 1} |-> IF k = 0 THEN "trace-0.jsonl" ELSE "trace-1.jsonl"]

(***************************************************************************)
(* State.                                                                  *)
(*   inv[i]   the frame of invocation i: its position (pc), the tool and  *)
(*            request it was called with, and its locals; with them, for   *)
(*            the record, how often it spawned the binary (spawns) and the *)
(*            output files a filesystem binary wrote (produced)            *)
(*   tmpfs[n] the temporary directory named n: None, or its files          *)
(*   dump     the caller's debug directory: whether it exists, and for     *)
(*            each file in it the invocation that wrote it                 *)
(*   pure     the pure-function harness (SpecFn)                           *)
(***************************************************************************)
Invs == 1..MaxRuns

TmpNameOf == <<"/tmp/tmpA", "/tmp/tmpB", "/tmp/tmpC", "/tmp/tmpD", "/tmp/tmpE", "/tmp/tmpF">>
TmpNames == { TmpNameOf[k] : k \in 1..MaxRuns }

EmptyFiles == [f \in {} |-> Raw]

IdleFrame ==
    [pc |-> "idle", self |-> NoTool, req |-> NoReq, fork_name |-> <<>>, reward |-> 0,
     temp_dir |-> None, args |-> <<>>, result |-> None, output |-> None,
     t8n_script |-> <<>>, traces |-> None, spawns |-> 0, produced |-> None,
     ret |-> None, err |-> None]

NoPure == [fn |-> "none", fork_name |-> <<>>, eips |-> None, out |-> None]

Init ==
    /\ inv = [i \in Invs |-> IdleFrame]
    /\ tmpfs = [n \in TmpNames |-> None]
    /\ dump = [exists |-> FALSE, files |-> EmptyFiles]
    /\ pure = NoPure

(***************************************************************************)
(* Helpers on the state.                                                   *)
(***************************************************************************)
\* temp_dir.name, as text.
Name(temp_dir) == <<temp_dir[1]>>

\* The frame of invocation i with the fields given by the record r replaced.
With(f, r) == [k \in DOMAIN f |-> IF k \in DOMAIN r THEN r[k] ELSE f[k]]

\* A bug a failure could have: the binary run once more before the error
\* is given up on.
RaiseAfterRetry(f, type, msg) ==
    IF f.spawns < 2
    THEN With(f, [pc |-> IF f.self.transport = "stream" THEN "s_run" ELSE "f_run"])
    ELSE With(f, [pc |-> "done", err |-> Some([type |-> type, msg |-> msg])])

\* raise: the invocation ends with the exception e.
Raise(f, type, msg) == With(f, [pc |-> "done", err |-> Some([type |-> type, msg |-> msg])])

\* files with the entries of more written over it.
Overwrite(files, more) ==
    [f \in DOMAIN files \cup DOMAIN more |-> IF f \in DOMAIN more THEN more[f] ELSE files[f]]

\* A bug the allocator could have: a name taken without looking whether a
\* directory of that name exists.
AnyNames == TmpNames

\* tempfile.TemporaryDirectory(): a directory under a name no directory has.
FreeNames == { n \in TmpNames : tmpfs[n] = None }

\* Invocations are made one after another: invocation i is called once the
\* frames of the earlier ones are gone.
CanStart(i) ==
    /\ inv[i].pc = "idle"
    /\ \A j \in Invs : j < i => inv[j].pc = "released"

\* make_tempdir() / temp_dir.cleanup() on the directory named n.
make_tempdir(n) == [tmpfs EXCEPT ![n] = Some(EmptyFiles)]
cleanup(temp_dir) == [tmpfs EXCEPT ![temp_dir[1]] = None]

(***************************************************************************)
(* Helpers missing from the repository's files, modelled from the spec.   *)
(***************************************************************************)
\* _dump_files_to_directory(path, files): writes each named file under the
\* dump directory, creating it when needed.  It removes nothing: both
\* executors call it on a directory that already holds files of the same
\* invocation (the copied workspace, the first dump of a stream run), and
\* the dump layout lists those files side by side.
\* The "+x" of "t8n.sh+x" is a mode flag, not part of the file's name.
dump_files_to_directory(d, i, names) ==
    [exists |-> TRUE,
     files |-> Overwrite(d.files, [f \in names |-> i])]

\* _write_json_file(content, path) into a workspace's files.
write_json_file(files, path, content) ==
    Overwrite(files, [f \in {path} |-> JsonDumps(content)])

\* A bug the collector could have: the receipts without a trace file left
\* out of what it reports.
collect_traces_found_only(receipts, files) ==
    [k \in { x \in 0..(Len(receipts) - 1) : TraceFile[x] \in DOMAIN files } |-> "trace"]

\* self.collect_traces(receipts, temp_dir, debug_output_path): receipt k is
\* associated with its trace file when the directory holds one; a missing
\* file is reported and is not an error.
collect_traces(receipts, files) ==
    [k \in 0..(Len(receipts) - 1) |->
        IF TraceFile[k] \in DOMAIN files THEN "trace" ELSE "missing"]

\* The trace files collect_traces mirrors into the dump directory.
TraceFilesIn(files) == { TraceFile[k] : k \in {0, 1} } \cap DOMAIN files

(***************************************************************************)
(* The Stream Executor, _evaluate_stream.                                  *)
(***************************************************************************)
\* A bug the builder could have: the subcommand appended even when none is
\* configured.
make_stream_args_always_subcommand(self, fork_name, chain_id, reward, temp_dir) ==
    LET command == <<self.binary, self.t8n_subcommand>>
        args == command \o
                << <<"--input.alloc=stdin">>,
                   <<"--input.txs=stdin">>,
                   <<"--input.env=stdin">>,
                   <<"--output.result=stdout">>,
                   <<"--output.alloc=stdout">>,
                   <<"--output.body=stdout">>,
                   <<"--state.fork=">> \o fork_name,
                   <<"--state.chainid=">> \o Str(chain_id),
                   <<"--state.reward=">> \o Str(reward) >>
    IN  IF self.trace
        THEN args \o << <<"--trace">>, <<"--output.basedir=">> \o Name(temp_dir) >>
        ELSE args

\* A bug the builder could have: the command kept in a list shared between
\* calls, so that a second build starts from the first one's vector.
make_stream_args_shared(self, fork_name, chain_id, reward, temp_dir) ==
    LET shared == IF pure.fn = "build_args" /\ pure.out1 # None THEN pure.out1[1] ELSE <<>>
        command == shared \o <<self.binary>> \o
                   (IF self.t8n_subcommand # <<>> THEN <<self.t8n_subcommand>> ELSE <<>>)
        args == command \o
                << <<"--input.alloc=stdin">>,
                   <<"--input.txs=stdin">>,
                   <<"--input.env=stdin">>,
                   <<"--output.result=stdout">>,
                   <<"--output.alloc=stdout">>,
                   <<"--output.body=stdout">>,
                   <<"--state.fork=">> \o fork_name,
                   <<"--state.chainid=">> \o Str(chain_id),
                   <<"--state.reward=">> \o Str(reward) >>
    IN  IF self.trace
        THEN args \o << <<"--trace">>, <<"--output.basedir=">> \o Name(temp_dir) >>
        ELSE args

make_stream_args(self, fork_name, chain_id, reward, temp_dir) ==
    LET command == <<self.binary>> \o
                   (IF self.t8n_subcommand # <<>> THEN <<self.t8n_subcommand>> ELSE <<>>)
        args == command \o
                << <<"--input.alloc=stdin">>,
                   <<"--input.txs=stdin">>,
                   <<"--input.env=stdin">>,
                   <<"--output.result=stdout">>,
                   <<"--output.alloc=stdout">>,
                   <<"--output.body=stdout">>,
                   <<"--state.fork=">> \o fork_name,
                   <<"--state.chainid=">> \o Str(chain_id),
                   <<"--state.reward=">> \o Str(reward) >>
    IN  IF self.trace
        THEN args \o << <<"--trace">>, <<"--output.basedir=">> \o Name(temp_dir) >>
        ELSE args

\* A bug the normalisation could have: the encoded fork name written back
\* into the caller's request instead of kept in a local.
StreamEnterRenamingRequest(i) ==
    /\ \E self \in Tools, req \in Requests :
        /\ self.transport = "stream"
        /\ LET fork_name == apply_eips_to_forkname(req.fork_name, req.eips)
               reward == correct_reward_for_genesis(req.reward, req.env)
               Go(temp_dir) ==
                   inv' = [inv EXCEPT ![i] =
                       With(IdleFrame,
                            [pc |-> "s_run", self |-> self,
                             req |-> [req EXCEPT !.fork_name = fork_name],
                             fork_name |-> fork_name, reward |-> reward,
                             temp_dir |-> temp_dir,
                             args |-> make_stream_args(self, fork_name, req.chain_id,
                                                       reward, temp_dir)])]
           IN  IF self.trace
               THEN \E n \in FreeNames :
                       /\ tmpfs' = make_tempdir(n)
                       /\ Go(Some(n))
               ELSE /\ tmpfs' = tmpfs
                    /\ Go(None)
    /\ UNCHANGED <<dump, pure>>

\* Lines 29-42: the inputs are normalised, the trace directory is made and
\* the argument vector is built.
StreamEnter(i) ==
    /\ \E self \in Tools, req \in Requests :
        /\ self.transport = "stream"
        /\ LET fork_name == apply_eips_to_forkname(req.fork_name, req.eips)
               reward == correct_reward_for_genesis(req.reward, req.env)
               Go(temp_dir) ==
                   inv' = [inv EXCEPT ![i] =
                       With(IdleFrame,
                            [pc |-> "s_run", self |-> self, req |-> req,
                             fork_name |-> fork_name, reward |-> reward,
                             temp_dir |-> temp_dir,
                             args |-> make_stream_args(self, fork_name, req.chain_id,
                                                       reward, temp_dir)])]
           IN  IF self.trace
               THEN \E n \in FreeNames :
                       /\ tmpfs' = make_tempdir(n)
                       /\ Go(Some(n))
               ELSE /\ tmpfs' = tmpfs
                    /\ Go(None)
    /\ UNCHANGED <<dump, pure>>

\* _evaluate_stream is called.
StreamCall(i) == CanStart(i) /\ StreamEnter(i)

\* What a spawned stream binary may answer: (returncode, stdout, stderr).
StreamAnswers ==
    { [returncode |-> 1, stdout |-> Garbage, stderr |-> e] : e \in ErrTexts }
    \cup { [returncode |-> 0, stdout |-> Garbage, stderr |-> <<>>] }
    \cup { [returncode |-> 0, stdout |-> JsonDumps(o), stderr |-> <<>>] : o \in Envelopes }

\* Lines 43-48: subprocess.run.  The binary may be missing (the spawn
\* raises); a tracing binary that succeeds leaves trace files in its basedir.
StreamRun(i) ==
    /\ inv[i].pc = "s_run"
    /\ \/ /\ inv' = [inv EXCEPT ![i] =
                 Raise(With(@, [spawns |-> @.spawns + 1]), "FileNotFoundError", inv[i].self.binary)]
          /\ tmpfs' = tmpfs
       \/ \E r \in StreamAnswers :
          /\ inv' = [inv EXCEPT ![i] =
                 With(@, [pc |-> "s_dump", result |-> Some(r), spawns |-> @.spawns + 1])]
          /\ IF inv[i].self.trace /\ r.returncode = 0
             THEN \E T \in TraceSets :
                     tmpfs' = [tmpfs EXCEPT ![inv[i].temp_dir[1]] =
                                 Some([f \in { TraceFile[k] : k \in T } |-> Raw])]
             ELSE tmpfs' = tmpfs
    /\ UNCHANGED <<dump, pure>>

\* The reproduction script of a stream run (lines 51-62).
StreamScript(self, args, temp_dir, debug_output_path) ==
    LET t8n_output_base_dir == PathJoin(debug_output_path, <<"t8n.sh.out">>)
        joined == Join(<<" ">>, args)
        t8n_call == IF self.trace
                    THEN Replace(joined, Name(temp_dir), t8n_output_base_dir)
                    ELSE joined
    IN  <<"#!/bin/bash", "\n">>
        \o <<"rm -rf ">> \o debug_output_path \o <<"/", "t8n.sh.out">>
        \o <<"  # hard-coded to avoid surprises", "\n">>
        \o <<"mkdir ">> \o debug_output_path \o <<"/", "t8n.sh.out">>
        \o <<"  # unused if tracing is not enabled", "\n">>
        \o t8n_call \o <<" < ">> \o debug_output_path \o <<"/", "stdin.txt">> \o <<"\n">>

StreamDumpNames ==
    {"args.py", "input/alloc.json", "input/env.json", "input/txs.json", "returncode.txt",
     "stdin.txt", "stdout.txt", "stderr.txt", "t8n.sh"}

\* A bug the dump could have: the exit code checked first, so that a failed
\* run leaves no dump.
StreamDumpAfterCheck(i) ==
    /\ inv[i].pc = "s_dump"
    /\ LET f == inv[i]
       IN  IF f.result[1].returncode # 0
           THEN /\ inv' = [inv EXCEPT ![i] =
                       Raise(@, "Exception", <<"failed to evaluate: ">> \o f.result[1].stderr)]
                /\ dump' = dump
           ELSE IF f.req.debug_output_path # <<>>
           THEN /\ inv' = [inv EXCEPT ![i] =
                       With(@, [pc |-> "s_check",
                                t8n_script |-> StreamScript(f.self, f.args, f.temp_dir,
                                                            f.req.debug_output_path)])]
                /\ dump' = dump_files_to_directory(dump, i, StreamDumpNames)
           ELSE /\ inv' = [inv EXCEPT ![i] = With(@, [pc |-> "s_check"])]
                /\ dump' = dump
    /\ UNCHANGED <<tmpfs, pure>>

\* Lines 50-76: the first dump of a stream run.
StreamDump(i) ==
    /\ inv[i].pc = "s_dump"
    /\ LET f == inv[i]
       IN  IF f.req.debug_output_path # <<>>
           THEN /\ inv' = [inv EXCEPT ![i] =
                       With(@, [pc |-> "s_check",
                                t8n_script |-> StreamScript(f.self, f.args, f.temp_dir,
                                                            f.req.debug_output_path)])]
                /\ dump' = dump_files_to_directory(dump, i, StreamDumpNames)
           ELSE /\ inv' = [inv EXCEPT ![i] = With(@, [pc |-> "s_check"])]
                /\ dump' = dump
    /\ UNCHANGED <<tmpfs, pure>>

\* A bug the failure could have: the error stream's text left out.
FailedToEvaluateNoText(f) == Raise(f, "Exception", <<"failed to evaluate: ">>)

\* The exception of lines 79 and 231.
FailedToEvaluate(f) ==
    Raise(f, "Exception", <<"failed to evaluate: ">> \o f.result[1].stderr)

\* Lines 78-79.
StreamCheck(i) ==
    /\ inv[i].pc = "s_check"
    /\ inv' = [inv EXCEPT ![i] =
           IF @.result[1].returncode # 0
           THEN FailedToEvaluate(@)
           ELSE With(@, [pc |-> "s_parse"])]
    /\ UNCHANGED <<tmpfs, dump, pure>>

\* Line 81: json.loads(result.stdout).
StreamParse(i) ==
    /\ inv[i].pc = "s_parse"
    /\ inv' = [inv EXCEPT ![i] =
           IF IsJson(@.result[1].stdout)
           THEN With(@, [pc |-> "s_validate", output |-> Some(JsonLoads(@.result[1].stdout))])
           ELSE Raise(@, "JSONDecodeError", <<"Expecting value">>)]
    /\ UNCHANGED <<tmpfs, dump, pure>>

MalformedMsg == <<"Malformed t8n output: missing 'alloc', 'result' or 'body'.">>

\* A bug the validator could have: the body key not looked for.
HasAllocAndResult(output) == "alloc" \in DOMAIN output /\ "result" \in DOMAIN output

\* The test of line 83.
HasRequiredKeys(output) == \A k \in 1..Len(RequiredKeys) : RequiredKeys[k] \in DOMAIN output

\* Lines 83-84.
StreamValidate(i) ==
    /\ inv[i].pc = "s_validate"
    /\ inv' = [inv EXCEPT ![i] =
           IF ~HasRequiredKeys(@.output[1])
           THEN Raise(@, "Exception", MalformedMsg)
           ELSE With(@, [pc |-> "s_dump_out"])]
    /\ UNCHANGED <<tmpfs, dump, pure>>

StreamOutNames == {"output/alloc.json", "output/result.json", "output/txs.rlp"}

\* Lines 86-94: the second dump of a stream run.
StreamDumpOut(i) ==
    /\ inv[i].pc = "s_dump_out"
    /\ inv' = [inv EXCEPT ![i] = With(@, [pc |-> "s_trace"])]
    /\ dump' = IF inv[i].req.debug_output_path # <<>>
               THEN dump_files_to_directory(dump, i, StreamOutNames)
               ELSE dump
    /\ UNCHANGED <<tmpfs, pure>>

\* The trace step of both executors (lines 96-97 and 243-244):
\* output["result"]["receipts"] is read, then collect_traces runs.
TraceStep(i, result, next) ==
    LET f == inv[i]
        files == tmpfs[f.temp_dir[1]][1]
    IN  IF ~f.self.trace
        THEN /\ inv' = [inv EXCEPT ![i] = With(@, [pc |-> next])]
             /\ dump' = dump
        ELSE IF "receipts" \notin DOMAIN result
        THEN /\ inv' = [inv EXCEPT ![i] = Raise(@, "KeyError", <<"receipts">>)]
             /\ dump' = dump
        ELSE /\ inv' = [inv EXCEPT ![i] =
                    With(@, [pc |-> next,
                             traces |-> Some(collect_traces(result.receipts, files))])]
             /\ dump' = IF f.req.debug_output_path # <<>>
                        THEN dump_files_to_directory(dump, i, TraceFilesIn(files))
                        ELSE dump

\* Lines 96-97.
StreamTrace(i) ==
    /\ inv[i].pc = "s_trace"
    /\ TraceStep(i, inv[i].output[1].result, "s_cleanup")
    /\ UNCHANGED <<tmpfs, pure>>

\* Line 98: temp_dir.cleanup(), inside "if self.trace".
StreamCleanup(i) ==
    /\ inv[i].pc = "s_cleanup"
    /\ inv' = [inv EXCEPT ![i] = With(@, [pc |-> "s_return"])]
    /\ tmpfs' = IF inv[i].self.trace THEN cleanup(inv[i].temp_dir) ELSE tmpfs
    /\ UNCHANGED <<dump, pure>>

\* A bug the return could have: the pair in the wrong order.
ReturnPairSwapped(output) == <<output.result, output.alloc>>

\* The pair of lines 100 and 248.
ReturnPair(output) == <<output.alloc, output.result>>

\* Line 100.
StreamReturn(i) ==
    /\ inv[i].pc = "s_return"
    /\ inv' = [inv EXCEPT ![i] =
           With(@, [pc |-> "done", ret |-> Some(ReturnPair(@.output[1]))])]
    /\ UNCHANGED <<tmpfs, dump, pure>>

(***************************************************************************)
(* The Filesystem Executor, _evaluate_filesystem.                          *)
(***************************************************************************)
InputKeys == <<"alloc", "env", "txs">>

\* The file of the workspace that holds input or output k.
InputFile(k) == IF k = "alloc" THEN "input/alloc.json"
                ELSE IF k = "env" THEN "input/env.json" ELSE "input/txs.json"
OutputFile(k) == IF k = "alloc" THEN "output/alloc.json"
                 ELSE IF k = "result" THEN "output/result.json" ELSE "output/txs.rlp"

\* input_paths[k] (line 153) and output_paths[k] (lines 158-161), as text.
input_path(temp_dir, k) ==
    PathJoin(PathJoin(Name(temp_dir), <<"input">>),
             <<IF k = "alloc" THEN "alloc.json"
               ELSE IF k = "env" THEN "env.json" ELSE "txs.json">>)
output_path(k) ==
    PathJoin(<<"output">>,
             <<IF k = "alloc" THEN "alloc.json"
               ELSE IF k = "result" THEN "result.json" ELSE "txs.rlp">>)

\* A bug the builder could have: the output paths joined with the workspace
\* (as line 234 does after the run) before the vector is built.
make_filesystem_args_absolute_outputs(self, fork_name, chain_id, reward, temp_dir) ==
    LET args == << self.binary,
                   <<"--state.fork">>, fork_name,
                   <<"--input.alloc">>, input_path(temp_dir, "alloc"),
                   <<"--input.env">>, input_path(temp_dir, "env"),
                   <<"--input.txs">>, input_path(temp_dir, "txs"),
                   <<"--output.basedir">>, Name(temp_dir),
                   <<"--output.result">>, PathJoin(Name(temp_dir), output_path("result")),
                   <<"--output.alloc">>, PathJoin(Name(temp_dir), output_path("alloc")),
                   <<"--output.body">>, PathJoin(Name(temp_dir), output_path("body")),
                   <<"--state.reward">>, Str(reward),
                   <<"--state.chainid">>, Str(chain_id) >>
    IN  IF self.trace THEN args \o << <<"--trace">> >> ELSE args

\* Lines 164-189.
make_filesystem_args(self, fork_name, chain_id, reward, temp_dir) ==
    LET args == << self.binary,
                   <<"--state.fork">>, fork_name,
                   <<"--input.alloc">>, input_path(temp_dir, "alloc"),
                   <<"--input.env">>, input_path(temp_dir, "env"),
                   <<"--input.txs">>, input_path(temp_dir, "txs"),
                   <<"--output.basedir">>, Name(temp_dir),
                   <<"--output.result">>, output_path("result"),
                   <<"--output.alloc">>, output_path("alloc"),
                   <<"--output.body">>, output_path("body"),
                   <<"--state.reward">>, Str(reward),
                   <<"--state.chainid">>, Str(chain_id) >>
    IN  IF self.trace THEN args \o << <<"--trace">> >> ELSE args

\* The reward the filesystem executor hands to the binary (line 183): the
\* keyword argument as given; correct_reward_for_genesis is not called.
filesystem_reward(req) == req.reward

\* Lines 140-189: the fork name is encoded, the workspace is made with its
\* inputs written, and the argument vector is built.
FsEnter(i) ==
    /\ \E self \in Tools, req \in Requests, n \in FreeNames :
        /\ self.transport = "filesystem"
        /\ LET fork_name == apply_eips_to_forkname(req.fork_name, req.eips)
               reward == filesystem_reward(req)
               contents == [k \in {"alloc", "env", "txs"} |->
                               IF k = "alloc" THEN req.alloc
                               ELSE IF k = "env" THEN req.env ELSE req.txs]
               files == write_json_file(
                            write_json_file(
                                write_json_file(EmptyFiles, InputFile("alloc"), contents["alloc"]),
                                InputFile("env"), contents["env"]),
                            InputFile("txs"), contents["txs"])
           IN  /\ tmpfs' = [tmpfs EXCEPT ![n] = Some(files)]
               /\ inv' = [inv EXCEPT ![i] =
                      With(IdleFrame,
                           [pc |-> "f_run", self |-> self, req |-> req,
                            fork_name |-> fork_name, reward |-> reward,
                            temp_dir |-> Some(n),
                            args |-> make_filesystem_args(self, fork_name, req.chain_id,
                                                          reward, Some(n))])]
    /\ UNCHANGED <<dump, pure>>

\* _evaluate_filesystem is called.
FsCall(i) == CanStart(i) /\ FsEnter(i)

\* The output files a filesystem binary may leave on a zero exit: any subset
\* of the three, the two documents as JSON, or alloc.json as text that is
\* no JSON.
FsOutput(K, a, r) ==
    [f \in { OutputFile(k) : k \in K } |->
        IF f = "output/alloc.json" THEN a
        ELSE IF f = "output/result.json" THEN JsonDumps(r) ELSE Raw]

FsOutputs ==
    { FsOutput(K, JsonDumps([acct |-> "a1"]), [stateRoot |-> "r1", receipts |-> Receipts]) :
        K \in SUBSET {"alloc", "result", "body"} }
    \cup { FsOutput({"alloc", "result", "body"}, a, r) :
              a \in { JsonDumps(v) : v \in AllocVals } \cup {Garbage}, r \in ResultVals }

\* Lines 191-195: subprocess.run.
FsRun(i) ==
    /\ inv[i].pc = "f_run"
    /\ LET n == inv[i].temp_dir[1]
       IN \/ /\ inv' = [inv EXCEPT ![i] =
                    Raise(With(@, [spawns |-> @.spawns + 1]), "FileNotFoundError",
                          inv[i].self.binary)]
             /\ tmpfs' = tmpfs
          \/ \E e \in ErrTexts :
             /\ inv' = [inv EXCEPT ![i] =
                    With(@, [pc |-> "f_dump_rm", spawns |-> @.spawns + 1,
                             result |-> Some([returncode |-> 1, stdout |-> Garbage,
                                              stderr |-> e])])]
             /\ tmpfs' = tmpfs
          \/ \E o \in FsOutputs, T \in TraceSets :
             /\ inv' = [inv EXCEPT ![i] =
                    With(@, [pc |-> "f_dump_rm", spawns |-> @.spawns + 1,
                             produced |-> Some(o),
                             result |-> Some([returncode |-> 0, stdout |-> Garbage,
                                              stderr |-> <<>>])])]
             /\ tmpfs' = [tmpfs EXCEPT ![n] =
                    Some(Overwrite(Overwrite(tmpfs[n][1], o),
                                   IF inv[i].self.trace
                                   THEN [f \in { TraceFile[k] : k \in T } |-> Raw]
                                   ELSE EmptyFiles))]
    /\ UNCHANGED <<dump, pure>>

\* Lines 197-199: a dump directory that exists is removed.
FsDumpRm(i) ==
    /\ inv[i].pc = "f_dump_rm"
    /\ IF inv[i].req.debug_output_path # <<>>
       THEN /\ inv' = [inv EXCEPT ![i] = With(@, [pc |-> "f_dump_copy"])]
            /\ dump' = IF dump.exists THEN [exists |-> FALSE, files |-> EmptyFiles] ELSE dump
       ELSE /\ inv' = [inv EXCEPT ![i] = With(@, [pc |-> "f_check"])]
            /\ dump' = dump
    /\ UNCHANGED <<tmpfs, pure>>

\* Line 200: shutil.copytree(temp_dir.name, debug_output_path).  copytree
\* makes the destination directory and raises when it is already there
\* (another invocation made it since line 199).
FsDumpCopy(i) ==
    /\ inv[i].pc = "f_dump_copy"
    /\ IF dump.exists
       THEN /\ inv' = [inv EXCEPT ![i] =
                   Raise(@, "FileExistsError", @.req.debug_output_path)]
            /\ dump' = dump
       ELSE /\ inv' = [inv EXCEPT ![i] = With(@, [pc |-> "f_dump_write"])]
            /\ dump' = [exists |-> TRUE,
                        files |-> Overwrite(dump.files,
                                            [f \in DOMAIN tmpfs[inv[i].temp_dir[1]][1] |-> i])]
    /\ UNCHANGED <<tmpfs, pure>>

\* The loop of lines 203-206.
RECURSIVE UpdateInputPaths(_, _, _, _)
UpdateInputPaths(t8n_call, k, temp_dir, debug_output_path) ==
    IF k > Len(InputKeys) THEN t8n_call
    ELSE UpdateInputPaths(
             Replace(t8n_call, Dirname(input_path(temp_dir, InputKeys[k])),
                     PathJoin(debug_output_path, <<"input">>)),
             k + 1, temp_dir, debug_output_path)

\* A bug the script could have: the input directory rewritten, the basedir
\* left pointing at the workspace.
FsScriptInputsOnly(args, temp_dir, debug_output_path) ==
    LET t8n_call == Replace(Join(<<" ">>, args), Dirname(input_path(temp_dir, "alloc")),
                            PathJoin(debug_output_path, <<"input">>))
    IN  <<"#!/bin/bash", "\n">>
        \o <<"rm -rf ">> \o debug_output_path \o <<"/", "t8n.sh.out">>
        \o <<"  # hard-coded to avoid surprises", "\n">>
        \o <<"mkdir -p ">> \o debug_output_path \o <<"/", "t8n.sh.out", "/", "output", "\n">>
        \o t8n_call \o <<"\n">>

\* The reproduction script of a filesystem run (lines 201-218).
FsScript(args, temp_dir, debug_output_path) ==
    LET t8n_output_base_dir == PathJoin(debug_output_path, <<"t8n.sh.out">>)
        t8n_call == Replace(UpdateInputPaths(Join(<<" ">>, args), 1, temp_dir,
                                             debug_output_path),
                            Name(temp_dir), t8n_output_base_dir)
    IN  <<"#!/bin/bash", "\n">>
        \o <<"rm -rf ">> \o debug_output_path \o <<"/", "t8n.sh.out">>
        \o <<"  # hard-coded to avoid surprises", "\n">>
        \o <<"mkdir -p ">> \o debug_output_path \o <<"/", "t8n.sh.out", "/", "output", "\n">>
        \o t8n_call \o <<"\n">>

FsDumpNames == {"args.py", "returncode.txt", "stdout.txt", "stderr.txt", "t8n.sh"}

\* Lines 201-228: the script is made and the dump is written.
FsDumpWrite(i) ==
    /\ inv[i].pc = "f_dump_write"
    /\ inv' = [inv EXCEPT ![i] =
           With(@, [pc |-> "f_check",
                    t8n_script |-> FsScript(@.args, @.temp_dir, @.req.debug_output_path)])]
    /\ dump' = dump_files_to_directory(dump, i, FsDumpNames)
    /\ UNCHANGED <<tmpfs, pure>>

\* Lines 230-231.
FsCheck(i) ==
    /\ inv[i].pc = "f_check"
    /\ inv' = [inv EXCEPT ![i] =
           IF @.result[1].returncode # 0
           THEN FailedToEvaluate(@)
           ELSE With(@, [pc |-> "f_read"])]
    /\ UNCHANGED <<tmpfs, dump, pure>>

\* Lines 233-241: output/alloc.json, then output/result.json, are opened
\* and parsed; the body file is skipped.
FsRead(i) ==
    /\ inv[i].pc = "f_read"
    /\ LET files == tmpfs[inv[i].temp_dir[1]][1]
           Bad(k) == OutputFile(k) \notin DOMAIN files \/ ~IsJson(files[OutputFile(k)])
           Error(f, k) ==
               IF OutputFile(k) \notin DOMAIN files
               THEN Raise(f, "FileNotFoundError",
                          PathJoin(Name(inv[i].temp_dir), output_path(k)))
               ELSE Raise(f, "JSONDecodeError", <<"Expecting value">>)
       IN  inv' = [inv EXCEPT ![i] =
               IF Bad("alloc") THEN Error(@, "alloc")
               ELSE IF Bad("result") THEN Error(@, "result")
               ELSE With(@, [pc |-> "f_trace",
                             output |-> Some([k \in {"alloc", "result"} |->
                                                 JsonLoads(files[OutputFile(k)])])])]
    /\ UNCHANGED <<tmpfs, dump, pure>>

\* Lines 243-244.
FsTrace(i) ==
    /\ inv[i].pc = "f_trace"
    /\ TraceStep(i, inv[i].output[1].result, "f_cleanup")
    /\ UNCHANGED <<tmpfs, pure>>

\* Line 246.
FsCleanup(i) ==
    /\ inv[i].pc = "f_cleanup"
    /\ inv' = [inv EXCEPT ![i] = With(@, [pc |-> "f_return"])]
    /\ tmpfs' = cleanup(inv[i].temp_dir)
    /\ UNCHANGED <<dump, pure>>

\* Line 248.
FsReturn(i) ==
    /\ inv[i].pc = "f_return"
    /\ inv' = [inv EXCEPT ![i] =
           With(@, [pc |-> "done", ret |-> Some(ReturnPair(@.output[1]))])]
    /\ UNCHANGED <<tmpfs, dump, pure>>

(***************************************************************************)
(* After the call.                                                         *)
(***************************************************************************)
\* Whether the frame called temp_dir.cleanup() (lines 98 and 246): both
\* calls are followed only by the return.
CleanedUp(f) == f.temp_dir # None /\ (f.pc \in {"s_return", "f_return"} \/ f.ret # None)

\* The caller is done with the returned pair or the exception: the frame
\* and its locals are gone.  The frame held the last reference to its
\* TemporaryDirectory object (lines 142 and 262), whose finalizer removes a
\* directory that was never cleaned up; cleanup() detaches the finalizer.
Release(i) ==
    /\ inv[i].pc = "done"
    /\ inv' = [inv EXCEPT ![i] = With(IdleFrame, [pc |-> "released"])]
    /\ tmpfs' = IF inv[i].temp_dir # None /\ ~CleanedUp(inv[i])
                THEN cleanup(inv[i].temp_dir) ELSE tmpfs
    /\ UNCHANGED <<dump, pure>>

Next ==
    \E i \in Invs :
        \/ StreamCall(i) \/ StreamRun(i) \/ StreamDump(i) \/ StreamCheck(i)
        \/ StreamParse(i) \/ StreamValidate(i) \/ StreamDumpOut(i) \/ StreamTrace(i)
        \/ StreamCleanup(i) \/ StreamReturn(i)
        \/ FsCall(i) \/ FsRun(i) \/ FsDumpRm(i) \/ FsDumpCopy(i) \/ FsDumpWrite(i)
        \/ FsCheck(i) \/ FsRead(i) \/ FsTrace(i) \/ FsCleanup(i) \/ FsReturn(i)
        \/ Release(i)

Spec == Init /\ [][Next]_vars

(***************************************************************************)
(* Invocations made from several calling threads at once.  The steps are  *)
(* those of Spec; a call may begin while others are in progress.  To keep  *)
(* the interleavings countable less is varied: the block is the genesis    *)
(* block or the first one, and a binary fails with one text or answers     *)
(* with one complete output.                                               *)
(***************************************************************************)
\* Number of calling threads.
MaxPar == 2

\* The invocations in progress or not yet let go of by their caller.
Busy == { i \in Invs : inv[i].pc \notin {"idle", "released"} }

\* A thread is free to make the next call (the calls are numbered in the
\* order they begin).
ParCanStart(i) ==
    /\ inv[i].pc = "idle"
    /\ \A j \in Invs : j < i => inv[j].pc # "idle"
    /\ Cardinality(Busy) < MaxPar

ParNumbers == { <<"0">>, <<"0", "x", "1">> }
ParAlloc == [acct |-> "a1"]
ParResult == [stateRoot |-> "r1", receipts |-> Receipts]

\* What a binary did, in the invocations made here.
ParAnswer(f) ==
    f.result # None =>
        IF f.result[1].returncode # 0
        THEN f.result[1].stderr = <<"invalid chain id">>
        ELSE IF f.self.transport = "stream"
        THEN f.result[1].stdout =
                 JsonDumps(Envelope({"alloc", "result", "body"}, ParAlloc, ParResult))
        ELSE f.produced =
                 Some(FsOutput({"alloc", "result", "body"}, JsonDumps(ParAlloc), ParResult))

ParStreamCall(i) ==
    /\ ParCanStart(i)
    /\ StreamEnter(i)
    /\ inv'[i].req.env.currentNumber \in ParNumbers

ParFsCall(i) ==
    /\ ParCanStart(i)
    /\ FsEnter(i)
    /\ inv'[i].req.env.currentNumber \in ParNumbers

ParStreamRun(i) == StreamRun(i) /\ ParAnswer(inv'[i])

ParFsRun(i) == FsRun(i) /\ ParAnswer(inv'[i])

NextPar ==
    \E i \in Invs :
        \/ ParStreamCall(i) \/ ParStreamRun(i) \/ StreamDump(i) \/ StreamCheck(i)
        \/ StreamParse(i) \/ StreamValidate(i) \/ StreamDumpOut(i) \/ StreamTrace(i)
        \/ StreamCleanup(i) \/ StreamReturn(i)
        \/ ParFsCall(i) \/ ParFsRun(i) \/ FsDumpRm(i) \/ FsDumpCopy(i) \/ FsDumpWrite(i)
        \/ FsCheck(i) \/ FsRead(i) \/ FsTrace(i) \/ FsCleanup(i) \/ FsReturn(i)
        \/ Release(i)

SpecPar == Init /\ [][NextPar]_vars

(***************************************************************************)
(* The pure functions, applied to inputs drawn from bounded sets.          *)
(***************************************************************************)
FnForks == { <<"Berlin">>, <<"London">> }
FnEipIds == {1, 10, 3855}

RECURSIVE SeqsUpTo(_, _)
\* The sequences over S of length at most n.
SeqsUpTo(S, n) ==
    IF n = 0 THEN { <<>> }
    ELSE LET shorter == SeqsUpTo(S, n - 1)
         IN  shorter \cup { Append(q, x) : q \in shorter, x \in S }

FnEipLists == { None } \cup { Some(q) : q \in SeqsUpTo(FnEipIds, MaxEips) }

\* The rewards and the currentNumber texts given to the Reward Corrector:
\* decimal and 0x-prefixed hexadecimal numerals, of zero and of other numbers.
FnRewards == {0, 2000, 0 - 1}
FnNumbers ==
    { <<"0">>, <<"0", "x", "0">>, <<"0", "x", "0", "0">>,
      <<"1">>, <<"1", "0">>, <<"1", "0", "0">>,
      <<"0", "x", "1">>, <<"0", "x", "1", "0">>, <<"0", "x", "0", "a">>, <<"0", "x", "f", "0">> }

\* The calls of the pure functions: each with its arguments, and no result yet.
FnCalls ==
    { [fn |-> "apply_eips_to_forkname", fork_name |-> f, eips |-> e, out |-> None] :
        f \in FnForks, e \in FnEipLists }
    \cup { [fn |-> "correct_reward_for_genesis", reward |-> r,
            env |-> [currentNumber |-> n], out |-> None] :
              r \in FnRewards, n \in FnNumbers }

\* The tool instances and values given to the two argument builders.  A
\* stream tool has a trace directory when it traces and none when it does
\* not; a filesystem tool always has its workspace.
FnTools ==
    { [transport |-> "stream", binary |-> <<"evm">>, t8n_subcommand |-> c, trace |-> t] :
        c \in { <<>>, <<"t8n">> }, t \in BOOLEAN }
    \cup { [transport |-> "filesystem", binary |-> <<"evmone-t8n">>,
            t8n_subcommand |-> <<>>, trace |-> t] : t \in BOOLEAN }
FnForkNames == { <<"Berlin">>, <<"Berlin", "+", "3", "8", "5", "5">> }
FnChainIds == {1, 1337}
FnBuildRewards == {0 - 1, 2000}

FnBuilds ==
    { [self |-> t, fork_name |-> f, chain_id |-> c, reward |-> r, temp_dir |-> d] :
        t \in FnTools, f \in FnForkNames, c \in FnChainIds, r \in FnBuildRewards,
        d \in { None } \cup { Some(n) : n \in TmpNames } }

\* The builds that can happen: lines 31-34 and 142.
FnArgInputs ==
    { b \in FnBuilds :
        IF b.self.transport = "stream" /\ ~b.self.trace
        THEN b.temp_dir = None ELSE b.temp_dir # None }

\* The argument vector the executor of a tool's transport builds.
BuildArgs(b) ==
    IF b.self.transport = "stream"
    THEN make_stream_args(b.self, b.fork_name, b.chain_id, b.reward, b.temp_dir)
    ELSE make_filesystem_args(b.self, b.fork_name, b.chain_id, b.reward, b.temp_dir)

\* One build, and two builds made one after the other.
FnBuildCalls ==
    { [fn |-> "make_args", in |-> b, out |-> None] : b \in FnArgInputs }
    \cup { [fn |-> "build_args", first |-> a, second |-> b, out1 |-> None, out2 |-> None] :
              a \in { x \in FnArgInputs : x.chain_id = 1 /\ x.reward = 2000 },
              b \in { x \in FnArgInputs : x.chain_id = 1 /\ x.reward = 2000 } }

InitFn ==
    /\ inv = [i \in Invs |-> IdleFrame]
    /\ tmpfs = [n \in TmpNames |-> None]
    /\ dump = [exists |-> FALSE, files |-> EmptyFiles]
    /\ pure \in FnCalls \cup FnBuildCalls

ApplyEips ==
    /\ pure.fn = "apply_eips_to_forkname"
    /\ pure.out = None
    /\ pure' = [pure EXCEPT !.out = Some(apply_eips_to_forkname(pure.fork_name, pure.eips))]
    /\ UNCHANGED <<inv, tmpfs, dump>>

CorrectReward ==
    /\ pure.fn = "correct_reward_for_genesis"
    /\ pure.out = None
    /\ pure' = [pure EXCEPT !.out = Some(correct_reward_for_genesis(pure.reward, pure.env))]
    /\ UNCHANGED <<inv, tmpfs, dump>>

MakeArgs ==
    /\ pure.fn = "make_args"
    /\ pure.out = None
    /\ pure' = [pure EXCEPT !.out = Some(BuildArgs(pure.in))]
    /\ UNCHANGED <<inv, tmpfs, dump>>

BuildFirst ==
    /\ pure.fn = "build_args"
    /\ pure.out1 = None
    /\ pure' = [pure EXCEPT !.out1 = Some(BuildArgs(pure.first))]
    /\ UNCHANGED <<inv, tmpfs, dump>>

BuildSecond ==
    /\ pure.fn = "build_args"
    /\ pure.out1 # None
    /\ pure.out2 = None
    /\ pure' = [pure EXCEPT !.out2 = Some(BuildArgs(pure.second))]
    /\ UNCHANGED <<inv, tmpfs, dump>>

NextFn == ApplyEips \/ CorrectReward \/ MakeArgs \/ BuildFirst \/ BuildSecond

SpecFn == InitFn /\ [][NextFn]_vars

(***************************************************************************)
(* The claims.                                                             *)
(***************************************************************************)
\* The invocations whose call has begun and whose frame is still there.
Live == { i \in Invs : inv[i].pc \notin {"idle", "released"} }
Done == { i \in Invs : inv[i].pc = "done" }

\* The text after "--state.reward=" (stream) or the argument that follows
\* "--state.reward" (filesystem) in an argument vector.
RewardArg(args) ==
    LET flag == <<"--state.reward">>
        pre == <<"--state.reward=">>
    IN  IF \E k \in 1..Len(args) : args[k] = flag
        THEN args[(CHOOSE k \in 1..Len(args) : args[k] = flag) + 1]
        ELSE LET a == args[CHOOSE k \in 1..Len(args) : StartsWithAt(args[k], 1, pre)]
             IN  SubSeq(a, 2, Len(a))

\* Whether the directory an invocation made still exists.
TempDirExists(i) == inv[i].temp_dir # None /\ tmpfs[inv[i].temp_dir[1]] # None

\* The invocations whose binary was spawned and has exited.
Ran == { i \in Live : inv[i].result # None }

\* C1: whenever the binary ran for a request whose currentNumber denotes
\* zero, the reward argument it was given is "-1", in both executors.
C1_GenesisRewardIsMinusOne ==
    \A i \in Ran :
        IntBase0(inv[i].req.env.currentNumber) = 0
            => RewardArg(inv[i].args) = <<"-", "1">>

\* C2: once a Filesystem Executor invocation whose binary ran has ended, by
\* a return or by any exception, its ephemeral workspace no longer exists.
C2_WorkspaceGoneAtEnd ==
    \A i \in Done \cap Ran : inv[i].self.transport = "filesystem" => ~TempDirExists(i)

\* s ends with suf.
EndsWith(s, suf) == Len(suf) <= Len(s) /\ SubSeq(s, Len(s) - Len(suf) + 1, Len(s)) = suf

\* The positions an invocation can be at between the spawn and the exit-code
\* check.
BeforeCheck == {"s_dump", "s_check", "f_dump_rm", "f_dump_copy", "f_dump_write", "f_check"}

\* C3: in both executors an invocation whose process exited with a nonzero
\* code never gets past the exit-code check, and it ends with an exception
\* whose message ends with the captured error-stream text, word for word,
\* and with no pair returned.
C3_NonzeroExitFails ==
    \A i \in Live :
        (inv[i].result # None /\ inv[i].result[1].returncode # 0)
            => /\ inv[i].pc \in BeforeCheck \cup {"done"}
               /\ inv[i].ret = None
               /\ inv[i].pc = "done"
                    => /\ inv[i].err # None
                       /\ inv[i].err[1].type = "Exception"
                       /\ inv[i].result[1].stderr # <<>>
                       /\ EndsWith(inv[i].err[1].msg, inv[i].result[1].stderr)

C3_Witness ==
    \E i \in Done :
        /\ inv[i].result # None
        /\ inv[i].result[1].returncode = 1
        /\ inv[i].err = Some([type |-> "Exception",
                              msg |-> <<"failed to evaluate: ", "invalid chain id">>])

\* The positions of the Stream Executor after the validation of line 83.
StreamValidated == {"s_dump_out", "s_trace", "s_cleanup", "s_return"}

IsMalformedError(err) == err = Some([type |-> "Exception", msg |-> MalformedMsg])

\* C4: in the Stream Executor, once the envelope is parsed and validation
\* has run: an envelope without alloc, result or body ends the invocation
\* with the malformed-output exception and no pair; an envelope with all
\* three goes on, whatever other keys it has, and never ends with that
\* exception.
C4_StreamValidator ==
    \A i \in Live :
        (inv[i].self.transport = "stream" /\ inv[i].output # None
         /\ inv[i].pc # "s_validate")
            => IF {"alloc", "result", "body"} \subseteq DOMAIN inv[i].output[1]
               THEN /\ inv[i].pc \in StreamValidated \cup {"done"}
                    /\ ~IsMalformedError(inv[i].err)
               ELSE /\ inv[i].pc = "done"
                    /\ IsMalformedError(inv[i].err)
                    /\ inv[i].ret = None

C4_Witness ==
    \E i \in Done :
        /\ inv[i].self.transport = "stream"
        /\ inv[i].output # None
        /\ DOMAIN inv[i].output[1] = {"alloc", "result", "body", "extra"}
        /\ inv[i].ret # None

\* The output files a filesystem binary left are not all three there.
FsIncomplete(i) ==
    /\ inv[i].produced # None
    /\ \E f \in {"output/alloc.json", "output/result.json", "output/txs.rlp"} :
          f \notin DOMAIN inv[i].produced[1]

\* C5: a Filesystem Executor invocation whose process exited with zero and
\* left an incomplete output ends with the malformed-output exception: no
\* pair is returned and no other exception is raised.
C5_FsIncompleteIsMalformed ==
    \A i \in Done :
        (inv[i].self.transport = "filesystem" /\ inv[i].result # None
         /\ inv[i].result[1].returncode = 0 /\ FsIncomplete(i))
            => inv[i].ret = None /\ IsMalformedError(inv[i].err)

\* What the process of invocation i produced, when it exited with zero and
\* its output is complete: <<the pair of its alloc and result>>, else None.
\* A complete output holds alloc, result and body, and its result holds the
\* receipts.
Produced(i) ==
    LET f == inv[i]
    IN  IF f.result = None \/ f.result[1].returncode # 0 THEN None
        ELSE IF f.self.transport = "stream"
        THEN IF /\ IsJson(f.result[1].stdout)
                /\ {"alloc", "result", "body"} \subseteq DOMAIN f.result[1].stdout.json
                /\ "receipts" \in DOMAIN f.result[1].stdout.json.result
             THEN Some(<<f.result[1].stdout.json.alloc, f.result[1].stdout.json.result>>)
             ELSE None
        ELSE IF /\ f.produced # None
                /\ ~FsIncomplete(i)
                /\ IsJson(f.produced[1]["output/alloc.json"])
                /\ "receipts" \in DOMAIN f.produced[1]["output/result.json"].json
             THEN Some(<<f.produced[1]["output/alloc.json"].json,
                         f.produced[1]["output/result.json"].json>>)
             ELSE None

\* C6: in both transports, an invocation whose process exited with zero and
\* produced a complete output ends by returning the pair (alloc, result) as
\* the process produced them, in that order.
C6_ReturnsWhatWasProduced ==
    \A i \in Done :
        Produced(i) # None => inv[i].err = None /\ inv[i].ret = Produced(i)

C6_Witness ==
    \E i \in Done :
        /\ inv[i].self.transport = "filesystem"
        /\ inv[i].self.trace
        /\ Produced(i) # None
        /\ inv[i].ret = Some(<<[acct |-> "a2"], [stateRoot |-> "r1", receipts |-> Receipts]>>)

\* C7: once a Stream Executor invocation with tracing whose binary ran has
\* ended, by a return or by any exception, the trace directory it made no
\* longer exists.
C7_TraceDirGoneAtEnd ==
    \A i \in Done \cap Ran :
        (inv[i].self.transport = "stream" /\ inv[i].self.trace) => ~TempDirExists(i)

\* C8: when an invocation with debug dumping has ended after its process
\* ran, every file in the dump directory was written by that invocation.
C8_DumpHoldsOnlyThisRun ==
    \A i \in Done \cap Ran :
        inv[i].req.debug_output_path # <<>>
            => \A f \in DOMAIN dump.files : dump.files[f] = i

\* C9: a reproduction script, once written, does not mention the ephemeral
\* directory; where the command line named it, the script names a place in
\* the dump directory: the dumped input files and the t8n.sh.out basedir
\* (filesystem), the dumped stdin and the t8n.sh.out basedir (stream).
C9_ScriptLeavesWorkspace ==
    \A i \in Live :
        inv[i].t8n_script # <<>> =>
            LET f == inv[i]
                d == f.req.debug_output_path
                out == d \o <<"/", "t8n.sh.out">>
            IN  /\ f.temp_dir # None => ~Contains(f.t8n_script, Name(f.temp_dir))
                /\ f.self.transport = "filesystem" =>
                      /\ Contains(f.t8n_script, <<"--input.alloc", " ">> \o d
                                                \o <<"/", "input", "/", "alloc.json", " ">>)
                      /\ Contains(f.t8n_script, <<"--input.env", " ">> \o d
                                                \o <<"/", "input", "/", "env.json", " ">>)
                      /\ Contains(f.t8n_script, <<"--input.txs", " ">> \o d
                                                \o <<"/", "input", "/", "txs.json", " ">>)
                      /\ Contains(f.t8n_script, <<"--output.basedir", " ">> \o out \o <<" ">>)
                /\ f.self.transport = "stream" =>
                      /\ Contains(f.t8n_script, <<" < ">> \o d \o <<"/", "stdin.txt">>)
                      /\ f.self.trace =>
                            Contains(f.t8n_script, <<"--output.basedir=">> \o out \o <<" < ">>)

C9_Witness ==
    \E i \in Live :
        /\ inv[i].self.transport = "filesystem"
        /\ inv[i].t8n_script # <<>>
        /\ Contains(Join(<<" ">>, inv[i].args), Name(inv[i].temp_dir))
        /\ dump.exists /\ "t8n.sh" \in DOMAIN dump.files

RECURSIVE SplitFrom(_, _, _, _)
SplitFrom(s, k, sep, cur) ==
    IF k > Len(s) THEN <<cur>>
    ELSE IF s[k] = sep THEN <<cur>> \o SplitFrom(s, k + 1, sep, <<>>)
    ELSE SplitFrom(s, k + 1, sep, Append(cur, s[k]))

\* s.split(sep) for a one-atom separator.
Split(s, sep) == SplitFrom(s, 1, sep, <<>>)

\* t is the decimal numeral of the natural number n: digits only, no
\* leading zero, of value n.
IsDecimalOf(t, n) ==
    /\ t # <<>>
    /\ \A k \in 1..Len(t) : DigitVal(t[k]) \in 0..9
    /\ Len(t) > 1 => t[1] # "0"
    /\ Digits(t, 10) = n

\* C10: the Fork-Name Encoder returns the base name itself when the id list
\* is absent or empty; otherwise its result, cut at the '+' signs, is the
\* base name followed by the decimal numeral of each id, one per id, in the
\* caller's order, repeated ids repeated.
C10_ForkNameEncoder ==
    (pure.fn = "apply_eips_to_forkname" /\ pure.out # None) =>
        IF pure.eips = None \/ pure.eips = Some(<<>>)
        THEN pure.out[1] = pure.fork_name
        ELSE LET parts == Split(pure.out[1], "+")
                 ids == pure.eips[1]
             IN  /\ Len(parts) = 1 + Len(ids)
                 /\ parts[1] = pure.fork_name
                 /\ \A k \in 1..Len(ids) : IsDecimalOf(parts[k + 1], ids[k])

C10_Witness ==
    /\ pure.fn = "apply_eips_to_forkname"
    /\ pure.eips = Some(<<3855, 10, 3855>>)
    /\ pure.out = Some(<<"London", "+", "3", "8", "5", "5", "+", "1", "0",
                         "+", "3", "8", "5", "5">>)

\* The digits of a currentNumber text: what follows the 0x prefix, or all of
\* a decimal numeral.
NumberDigits(t) ==
    IF Len(t) > 2 /\ t[1] = "0" /\ t[2] = "x" THEN SubSeq(t, 3, Len(t)) ELSE t

\* A numeral denotes zero exactly when all its digits are "0".
DenotesZero(t) == \A k \in 1..Len(NumberDigits(t)) : NumberDigits(t)[k] = "0"

\* C11: the Reward Corrector returns -1 when the currentNumber text, decimal
\* or 0x-prefixed hexadecimal, denotes zero, whatever the requested reward;
\* for every other currentNumber it returns the requested reward unchanged.
C11_RewardCorrector ==
    (pure.fn = "correct_reward_for_genesis" /\ pure.out # None) =>
        IF DenotesZero(pure.env.currentNumber)
        THEN pure.out[1] = 0 - 1
        ELSE pure.out[1] = pure.reward

C11_Witness ==
    /\ pure.fn = "correct_reward_for_genesis"
    /\ pure.env.currentNumber = <<"0", "x", "0", "0">>
    /\ pure.reward = 2000
    /\ pure.out = Some(0 - 1)

\* t is the numeral str() gives the integer n.
IsNumeralOf(t, n) ==
    IF n < 0 THEN Len(t) > 1 /\ t[1] = "-" /\ IsDecimalOf(Tail(t), 0 - n)
    ELSE IsDecimalOf(t, n)

\* arg is flag followed by the numeral of n.
IsFlagWithNumber(arg, flag, n) ==
    Len(arg) > 1 /\ arg[1] = flag /\ IsNumeralOf(Tail(arg), n)

StdinFlags == << <<"--input.alloc=stdin">>, <<"--input.txs=stdin">>, <<"--input.env=stdin">> >>
StdoutFlags ==
    << <<"--output.result=stdout">>, <<"--output.alloc=stdout">>, <<"--output.body=stdout">> >>

\* C12: the stream argument vector is the binary, the subcommand if and
\* only if one is configured, the three stdin flags (alloc, txs, env), the
\* three stdout flags (result, alloc, body), --state.fork=<name>,
\* --state.chainid=<id>, --state.reward=<reward>, and then --trace and
\* --output.basedir=<ephemeral path> if and only if tracing is enabled; and
\* nothing else.
C12_StreamArgs ==
    (pure.fn = "make_args" /\ pure.out # None /\ pure.in.self.transport = "stream") =>
        LET b == pure.in
            a == pure.out[1]
            k == IF b.self.t8n_subcommand # <<>> THEN 2 ELSE 1
        IN  /\ Len(a) = k + 9 + (IF b.self.trace THEN 2 ELSE 0)
            /\ a[1] = b.self.binary
            /\ k = 2 => a[2] = b.self.t8n_subcommand
            /\ SubSeq(a, k + 1, k + 3) = StdinFlags
            /\ SubSeq(a, k + 4, k + 6) = StdoutFlags
            /\ a[k + 7] = <<"--state.fork=">> \o b.fork_name
            /\ IsFlagWithNumber(a[k + 8], "--state.chainid=", b.chain_id)
            /\ IsFlagWithNumber(a[k + 9], "--state.reward=", b.reward)
            /\ b.self.trace =>
                  /\ a[k + 10] = <<"--trace">>
                  /\ a[k + 11] = <<"--output.basedir=">> \o Name(b.temp_dir)

C12_Witness ==
    /\ pure.fn = "make_args"
    /\ pure.in.self.transport = "stream"
    /\ pure.in.self.t8n_subcommand = <<>>
    /\ pure.in.self.trace
    /\ pure.in.reward = 0 - 1
    /\ pure.out # None
    /\ Len(pure.out[1]) = 12
    /\ pure.out[1][12] = <<"--output.basedir=", "/tmp/tmpA">>

\* p is the file named name in the directory dir.
IsFileIn(p, dir, name) == p = dir \o <<"/", name>>

\* C13: the filesystem argument vector is the binary, --state.fork and the
\* name, --input.alloc, --input.env and --input.txs each with a path in the
\* workspace's input/ directory, --output.basedir and the workspace,
\* --output.result, --output.alloc and --output.body each with a path
\* relative to the workspace, --state.reward and the reward, --state.chainid
\* and the chain id, and then --trace alone if and only if tracing is
\* enabled; and nothing else.
C13_FilesystemArgs ==
    (pure.fn = "make_args" /\ pure.out # None /\ pure.in.self.transport = "filesystem") =>
        LET b == pure.in
            a == pure.out[1]
            workspace == <<b.temp_dir[1]>>
            input == workspace \o <<"/", "input">>
        IN  /\ Len(a) = 21 + (IF b.self.trace THEN 1 ELSE 0)
            /\ a[1] = b.self.binary
            /\ a[2] = <<"--state.fork">> /\ a[3] = b.fork_name
            /\ a[4] = <<"--input.alloc">> /\ IsFileIn(a[5], input, "alloc.json")
            /\ a[6] = <<"--input.env">> /\ IsFileIn(a[7], input, "env.json")
            /\ a[8] = <<"--input.txs">> /\ IsFileIn(a[9], input, "txs.json")
            /\ a[10] = <<"--output.basedir">> /\ a[11] = workspace
            /\ a[12] = <<"--output.result">> /\ IsFileIn(a[13], <<"output">>, "result.json")
            /\ a[14] = <<"--output.alloc">> /\ IsFileIn(a[15], <<"output">>, "alloc.json")
            /\ a[16] = <<"--output.body">> /\ IsFileIn(a[17], <<"output">>, "txs.rlp")
            /\ a[18] = <<"--state.reward">> /\ IsNumeralOf(a[19], b.reward)
            /\ a[20] = <<"--state.chainid">> /\ IsNumeralOf(a[21], b.chain_id)
            /\ b.self.trace => a[22] = <<"--trace">>

C13_Witness ==
    /\ pure.fn = "make_args"
    /\ pure.in.self.transport = "filesystem"
    /\ pure.in.self.trace
    /\ pure.in.temp_dir = Some("/tmp/tmpB")
    /\ pure.out # None
    /\ Len(pure.out[1]) = 22
    /\ pure.out[1][5] = <<"/tmp/tmpB", "/", "input", "/", "alloc.json">>
    /\ pure.out[1][13] = <<"output", "/", "result.json">>

\* The arguments that name a standard stream as a location, and the flags
\* that are followed by a path (the filesystem form of a location).
StreamForm == { StdinFlags[k] : k \in 1..3 } \cup { StdoutFlags[k] : k \in 1..3 }
PathFlags ==
    { <<"--input.alloc">>, <<"--input.env">>, <<"--input.txs">>, <<"--output.basedir">>,
      <<"--output.result">>, <<"--output.alloc">>, <<"--output.body">> }

HasStreamForm(a) == \E k \in 1..Len(a) : a[k] \in StreamForm
HasPathFlag(a) == \E k \in 1..Len(a) : a[k] \in PathFlags

\* A vector is of one mode: that of its tool's transport, and not the other.
OneMode(b, a) ==
    IF b.self.transport = "stream"
    THEN HasStreamForm(a) /\ ~HasPathFlag(a)
    ELSE HasPathFlag(a) /\ ~HasStreamForm(a)

FlagValue(args, flag) ==
    IF \E k \in 1..Len(args) : args[k] = <<flag>>
    THEN args[(CHOOSE k \in 1..Len(args) : args[k] = <<flag>>) + 1]
    ELSE LET a == args[CHOOSE k \in 1..Len(args) : StartsWithAt(args[k], 1, <<flag \o "=">>)]
         IN  SubSeq(a, 2, Len(a))

\* C15: whenever the binary has run in a stream invocation and in a
\* filesystem invocation made with the same request, the two were handed
\* the same fork name, the same chain id and the same reward.
C15_TransportsDriveAlike ==
    \A i \in Ran, j \in Ran :
        (inv[i].self.transport = "stream" /\ inv[j].self.transport = "filesystem"
         /\ inv[i].req = inv[j].req)
            => /\ FlagValue(inv[i].args, "--state.fork") = FlagValue(inv[j].args, "--state.fork")
               /\ FlagValue(inv[i].args, "--state.chainid")
                    = FlagValue(inv[j].args, "--state.chainid")
               /\ FlagValue(inv[i].args, "--state.reward")
                    = FlagValue(inv[j].args, "--state.reward")

\* C16: an invocation spawns the binary at most once; once it has failed,
\* with whatever exception, it has ended with that one exception and no
\* pair, and nothing more happens in it: no further spawn, no change of the
\* tool or its transport, until the caller lets go of it.
C16_NoRetry ==
    /\ [](\A i \in Invs :
            /\ inv[i].spawns <= 1
            /\ inv[i].err # None => inv[i].pc = "done" /\ inv[i].ret = None)
    /\ [][\A i \in Invs :
            /\ inv[i].err # None => inv'[i] = inv[i] \/ inv'[i].pc = "released"
            /\ (inv[i].pc \notin {"idle", "released"} /\ inv'[i].pc # "released")
                  => /\ inv'[i].self = inv[i].self
                     /\ inv'[i].spawns >= inv[i].spawns]_vars

C16_Witness ==
    \E i \in Done :
        /\ inv[i].self.transport = "filesystem"
        /\ inv[i].spawns = 1
        /\ inv[i].err # None
        /\ inv[i].err[1].type = "JSONDecodeError"

\* Invocation i owns the directory named n: it made it (as its workspace or
\* its trace directory) and has not cleaned it up.
Owns(i, n) == i \in Live /\ inv[i].temp_dir = Some(n) /\ ~CleanedUp(inv[i])

\* The positions at which an executor reads from its directory (lines 200,
\* 240, 97 and 244).
ReadsDir == {"f_dump_copy", "f_read", "f_trace", "s_trace"}

\* C17: in every interleaving of concurrent invocations, no directory is
\* owned by two invocations at once and a directory that is owned exists;
\* an invocation that reads from the directory its frame names owns it; and
\* a step that creates, writes or removes a directory is a step of the one
\* invocation that owns it (or, for a creation, comes to own it, no other
\* owning it).
C17_WorkspacesApart ==
    /\ [](\A n \in TmpNames :
            /\ \A i \in Invs, j \in Invs : (Owns(i, n) /\ Owns(j, n)) => i = j
            /\ \A i \in Invs :
                  /\ Owns(i, n) => tmpfs[n] # None
                  /\ (inv[i].pc \in ReadsDir /\ inv[i].temp_dir = Some(n)
                      /\ (inv[i].self.transport = "filesystem" \/ inv[i].self.trace))
                        => Owns(i, n))
    /\ [][\A n \in TmpNames :
            tmpfs'[n] # tmpfs[n] =>
                \E i \in Invs :
                    /\ inv'[i] # inv[i]
                    /\ \A j \in Invs \ {i} : ~Owns(j, n)
                    /\ Owns(i, n) \/ (tmpfs[n] = None /\ inv'[i].temp_dir = Some(n))]_vars

C17_Witness ==
    \E i \in Invs, j \in Invs, n \in TmpNames :
        /\ i # j
        /\ inv[i].pc = "f_return" /\ inv[i].temp_dir = Some(n)
        /\ Owns(j, n) /\ inv[j].pc = "s_trace"

\* C18: with tracing enabled, an invocation whose process exited with zero
\* and produced a complete output does not fail, whichever trace files are
\* there: once the collector has run, every receipt index is reported, as
\* associated with its trace file when the directory holds one and as
\* missing when it does not, and the invocation ends by returning the pair.
C18_MissingTraceIsNotFatal ==
    \A i \in Live :
        (inv[i].self.trace /\ Produced(i) # None) =>
            /\ inv[i].err = None
            /\ inv[i].pc \in {"s_cleanup", "f_cleanup"} =>
                  /\ inv[i].traces # None
                  /\ DOMAIN inv[i].traces[1] = 0..(Len(Produced(i)[1][2].receipts) - 1)
                  /\ \A k \in DOMAIN inv[i].traces[1] :
                        inv[i].traces[1][k] =
                            IF TraceFile[k] \in DOMAIN tmpfs[inv[i].temp_dir[1]][1]
                            THEN "trace" ELSE "missing"
            /\ inv[i].pc = "done" =>
                  /\ inv[i].traces # None
                  /\ DOMAIN inv[i].traces[1] = 0..(Len(Produced(i)[1][2].receipts) - 1)
                  /\ inv[i].ret = Produced(i)

C18_Witness ==
    \E i \in Done :
        /\ inv[i].self.trace
        /\ inv[i].self.transport = "stream"
        /\ inv[i].traces # None
        /\ inv[i].traces[1][0] = "trace"
        /\ inv[i].traces[1][1] = "missing"
        /\ inv[i].err = None
        /\ inv[i].ret # None

\* The positions at which the dump of a run is not yet complete.
Dumping == {"s_dump", "f_dump_rm", "f_dump_copy", "f_dump_write"}

\* The files that hold the command line, the exit code, the streams and
\* the reproduction script.
DumpCore == {"args.py", "returncode.txt", "stdout.txt", "stderr.txt", "t8n.sh"}

\* The files of the workspace tree when it is copied: the inputs, and what
\* the binary produced.
TreeOf(i) ==
    { InputFile(InputKeys[k]) : k \in 1..Len(InputKeys) }
    \cup (IF inv[i].produced # None THEN DOMAIN inv[i].produced[1] ELSE {})

\* Invocation i wrote the file f of the dump directory.
Dumped(i, f) == f \in DOMAIN dump.files /\ dump.files[f] = i

\* C19: in an invocation with a debug-dump path whose process ran, as long
\* as the dump is not complete no failure has been raised and the ephemeral
\* directory, if there is one, still exists; from then on, and so after the
\* invocation has ended by a return or by any failure, the dump directory
\* holds the command line, exit code, streams and reproduction script this
\* invocation wrote (the streams' stdin too, for the stream transport) and,
\* for the filesystem transport, its copy of the workspace tree.
C19_DumpBeforeRemovalAndFailure ==
    \A i \in Ran :
        inv[i].req.debug_output_path # <<>> =>
            IF inv[i].pc \in Dumping
            THEN /\ inv[i].err = None
                 /\ inv[i].temp_dir # None => TempDirExists(i)
            ELSE /\ dump.exists
                 /\ inv[i].t8n_script # <<>>
                 /\ \A f \in DumpCore : Dumped(i, f)
                 /\ inv[i].self.transport = "stream" => Dumped(i, "stdin.txt")
                 /\ inv[i].self.transport = "filesystem" => \A f \in TreeOf(i) : Dumped(i, f)

C19_Witness ==
    \E i \in Done :
        /\ inv[i].req.debug_output_path # <<>>
        /\ inv[i].self.transport = "filesystem"
        /\ inv[i].result # None /\ inv[i].result[1].returncode = 1
        /\ inv[i].err # None
        /\ Dumped(i, "stderr.txt") /\ Dumped(i, "t8n.sh") /\ Dumped(i, "input/env.json")

\* The positions after the trace step of either executor.
AfterTrace == {"s_cleanup", "s_return", "f_cleanup", "f_return", "done"}

\* The process of invocation i exited with zero and its output passes the
\* Output Validator: alloc, result and body are all there.
PassedValidation(i) ==
    LET f == inv[i]
    IN  /\ f.result # None
        /\ f.result[1].returncode = 0
        /\ IF f.self.transport = "stream"
           THEN /\ IsJson(f.result[1].stdout)
                /\ {"alloc", "result", "body"} \subseteq DOMAIN f.result[1].stdout.json
           ELSE /\ f.produced # None
                /\ ~FsIncomplete(i)
                /\ IsJson(f.produced[1]["output/alloc.json"])

\* The Trace Collector was invoked in invocation i.
Collected(i) == inv[i].traces # None

\* C20: once an invocation is past its trace step, the Trace Collector was
\* invoked in it if and only if tracing is enabled and the process exited
\* with zero with an output that passes validation; an invocation in which
\* it was invoked has not failed, and it was invoked while the ephemeral
\* directory was still there.
C20_CollectorOnlyAfterValidation ==
    \A i \in Ran :
        inv[i].pc \in AfterTrace =>
            /\ Collected(i) <=> (inv[i].self.trace /\ PassedValidation(i))
            /\ Collected(i) => inv[i].err = None
            /\ (Collected(i) /\ inv[i].pc \in {"s_cleanup", "f_cleanup"}) => TempDirExists(i)

\* C21: the request and the tool instance an invocation holds are a request
\* and a tool as callers give them, with the base fork name and the
\* requested reward its locals were derived from; and no step of the
\* invocation, with or without debug dumping, up to and including its
\* return or its failure, changes the request (allocation, transactions,
\* environment, extension ids) or the tool (binary, subcommand, trace flag).
C21_InputsUntouched ==
    /\ [](\A i \in Live :
            /\ inv[i].req \in Requests
            /\ inv[i].self \in Tools
            /\ inv[i].fork_name = apply_eips_to_forkname(inv[i].req.fork_name, inv[i].req.eips))
    /\ [][\A i \in Invs :
            (inv[i].pc \notin {"idle", "released"} /\ inv'[i].pc # "released")
                => /\ inv'[i].req = inv[i].req
                   /\ inv'[i].self = inv[i].self]_vars

C21_Witness ==
    \E i \in Done :
        /\ inv[i].self.transport = "stream"
        /\ inv[i].self.trace
        /\ inv[i].req.debug_output_path # <<>>
        /\ inv[i].req.env.currentNumber = <<"0", "x", "0">>
        /\ inv[i].reward = 0 - 1
        /\ inv[i].req.reward = 2000
        /\ inv[i].req.fork_name = <<"Berlin">>
        /\ inv[i].ret # None

\* The invocations that were given a dump directory, whose process ran, and
\* that have ended.
EndedWithDump == { i \in Done \cap Ran : inv[i].req.debug_output_path # <<>> }

\* C22: when two invocations in flight at once were given the same dump
\* directory and both have ended after their process ran, the directory
\* exists and all its files were written by one of the two: it never holds
\* files of both.
C22_DumpIsOfOneInvocation ==
    \A i \in EndedWithDump, j \in EndedWithDump :
        i # j =>
            /\ dump.exists
            /\ \E k \in {i, j} : \A f \in DOMAIN dump.files : dump.files[f] = k

====
